---- MODULE Spec2Model ----
(***************************************************************************)
(* Model of the bulk dispatch engine of the AWS SES mass mailer            *)
(* (src/app.py): the Streamlit page handlers that prepare and start a      *)
(* campaign, and run_bulk_with_progress / send_single_email, one action    *)
(* per handler or per step between two suspension points of the loop.      *)
(*                                                                         *)
(* Time is discrete: one tick of the clock is 1/rate_limit second, the     *)
(* time in which the limiter (aiolimiter.AsyncLimiter(rate_limit, 1), a    *)
(* leaky bucket of capacity rate_limit draining rate_limit per second)     *)
(* drains one permit.                                                      *)
(***************************************************************************)
EXTENDS Integers, Sequences, FiniteSets, TLC

\* ---------------------------------------------------------------- bounds
MaxRows == 3
MaxRate == 2
\* The longest table of the campaigns that vary the subject and the columns.
MaxTemplateRows == 2

\* ---------------------------------------------------------------- inputs
\* Addresses are named in the order of their first appearance in the table:
\* only which rows repeat an earlier address matters to the program.
Email(k) == <<"rcpt", k>>
Emails == {Email(k) : k \in 1..MaxRows}

\* Values of a row's "pdf" cell as row.get("pdf", None) returns them:
\* "" is None (the table has no pdf column), "nan" is the float NaN pandas
\* gives an empty cell, "doc.pdf" is a file name.
PdfCells == {"nan", "doc.pdf"}
PdfRefs == {""} \cup PdfCells

\* A template text is a sequence of tokens: literal text, an HTML tag, a
\* reference {{ v }} to a variable, or a "{{" that nothing closes.
Lit(s) == <<"lit", s>>
Tag(s) == <<"tag", s>>
Ref(v) == <<"ref", v>>
Unclosed == <<"open", "{{">>

\* The names a template can refer to, other than the email and pdf columns.
VarNames == {"name"}

\* What the body text area holds: a template without variables, the default
\* one ("<p>Hello {{ name }}</p>"), or one jinja2 rejects with
\* TemplateSyntaxError ("<p>Hello {{ name </p>").
PlainBody == <<Tag("<p>"), Lit("Hello"), Tag("</p>")>>
PersonalBody == <<Tag("<p>"), Lit("Hello "), Ref("name"), Tag("</p>")>>
MalformedBody == <<Tag("<p>"), Lit("Hello "), Unclosed, Lit(" name "), Tag("</p>")>>
HtmlBodies == {PlainBody, PersonalBody, MalformedBody}

\* What the subject input holds: the default, or a subject that refers to a
\* variable ("Update for {{ name }}").
PlainSubject == <<Lit("E-Cell Update")>>
PersonalSubject == <<Lit("Update for "), Ref("name")>>
Subjects == {PlainSubject, PersonalSubject}

\* The columns a table can have besides email and pdf.
ColumnSets == SUBSET VarNames

\* What send_raw_email raises (a provider rejection or a transport error:
\* both take the same path through the except clauses).
TransportErrors == {"MessageRejected"}

RowsOf(cells) == [email : Emails, pdf : cells]

\* A table names its addresses in order of first appearance, and a row that
\* repeats an earlier address repeats its pdf cell too (the row is dropped
\* before anything reads it).
Canonical(df) ==
    \A k \in 1..Len(df) :
        LET seen == {df[j].email : j \in 1..(k - 1)} IN
        \/ df[k].email = Email(Cardinality(seen) + 1)
        \/ \E j \in 1..(k - 1) : df[j] = df[k]

TablesOf(cells) ==
    {df \in UNION {[1..n -> RowsOf(cells)] : n \in 0..MaxRows} : Canonical(df)}

\* The tables pd.read_csv can return: the pdf column is there for every row
\* or for none.
CsvFiles == TablesOf({""}) \cup TablesOf(PdfCells)

VARIABLES
    csv_file,           \* the uploaded table, as pd.read_csv returns it
    columns,            \* df.columns, but email and pdf
    subject,            \* the subject input
    html_body,          \* the body template
    rate_limit,         \* sidebar "Emails per second"
    cancel_bulk,        \* st.session_state.cancel_bulk
    bulk_running,       \* st.session_state.bulk_running
    sent_emails,        \* st.session_state.sent_emails
    failed_emails,      \* st.session_state.failed_emails
    show_bulk_confirm,  \* st.session_state.show_bulk_confirm
    bulk_df,            \* st.session_state.bulk_df
    pc,                 \* where the script is: "idle" or a point of the loop
    pos,                \* position of the loop in bulk_df (1-based)
    total,              \* total = len(df)
    sent_count,         \* sent_count
    pdf_path,           \* pdf_path of the current row ("" is None)
    upload_error,       \* the st.error the upload handler shows
    level,              \* the limiter's bucket level
    clock,              \* event-loop time of the run, in ticks
    status_text,        \* what status_text shows
    reentered,          \* the bulk block was entered again since the last confirmation
    log                 \* the steps the current run has taken, in order

vars == <<csv_file, columns, subject, html_body, rate_limit, cancel_bulk,
          bulk_running, sent_emails, failed_emails, show_bulk_confirm, bulk_df,
          pc, pos, total, sent_count, pdf_path, upload_error, level, clock,
          status_text, reentered, log>>

inputs == <<csv_file, columns, subject, html_body, rate_limit>>
session == <<cancel_bulk, bulk_running, sent_emails, failed_emails,
             show_bulk_confirm, bulk_df>>
locals == <<pos, total, sent_count, pdf_path, level, clock>>

\* ------------------------------------------------------------- functions

\* df.drop_duplicates(subset=['email']): the first row of each email value,
\* in input order, each keeping the index label it had in df (0-based).
DropDuplicates(df) ==
    LET labelled == [k \in 1..Len(df) |->
                        [idx |-> k - 1, email |-> df[k].email, pdf |-> df[k].pdf]]
        first(r) == \A j \in 1..r.idx : df[j].email # r.email
    IN SelectSeq(labelled, first)

\* One step of the run, as the log records it: the step, the position of the
\* loop, the time, and for a progress event the processed count it reports.
Event(step, n) == [step |-> step, pos |-> pos, t |-> clock, n |-> n]

Max(a, b) == IF a >= b THEN a ELSE b

\* re.findall of the pattern \{\{\s*identifier\s*\}\}: the names of the
\* references of the text, as a set.
extract_template_variables(template_text) ==
    {template_text[k][2] :
        k \in {j \in 1..Len(template_text) : template_text[j][1] = "ref"}}

\* The cell of a row in column v, as text.
Cell(row, v) == v \o ToString(row.email[2])

\* f"[{var}]"
Placeholder(v) == "[" \o v \o "]"

\* template_values[var] = row.get(var, f"[{var}]") for the variables of the
\* body.
TemplateValues(row) ==
    [v \in extract_template_variables(html_body) |->
        IF v \in columns THEN Cell(row, v) ELSE Placeholder(v)]

\* Template(text).render(**values): each reference becomes its value, or
\* nothing when the name has no value (jinja2's Undefined).
Render(text, values) ==
    [k \in 1..Len(text) |->
        IF text[k][1] = "ref"
        THEN Lit(IF text[k][2] \in DOMAIN values THEN values[text[k][2]] ELSE "")
        ELSE text[k]]

\* re.sub('<[^<]+?>', '', rendered_html)
StripTags(rendered_html) ==
    LET isText(tok) == tok[1] # "tag" IN SelectSeq(rendered_html, isText)

\* Mutant: the HTML part is attached before the text part.
BuildMessage_HtmlFirst(recipient, subj, rendered_html, path) ==
    LET text_part == [type |-> "text/plain", body |-> StripTags(rendered_html)]
        html_part == [type |-> "text/html", body |-> rendered_html]
        msg_alt == [type |-> "alternative", parts |-> <<html_part, text_part>>]
        pdf_attachment == [type |-> "application/pdf", filename |-> path]
    IN [type |-> "mixed",
        Subject |-> subj,
        To |-> recipient,
        parts |-> IF path # "" THEN <<msg_alt, pdf_attachment>> ELSE <<msg_alt>>]

\* The MIME message of send_single_email: a multipart/mixed that holds the
\* multipart/alternative of the text and the HTML, and the PDF when pdf_path
\* names a file (the file found when the row was resolved is still there).
BuildMessage(recipient, subj, rendered_html, path) ==
    LET text_part == [type |-> "text/plain", body |-> StripTags(rendered_html)]
        html_part == [type |-> "text/html", body |-> rendered_html]
        msg_alt == [type |-> "alternative", parts |-> <<text_part, html_part>>]
        pdf_attachment == [type |-> "application/pdf", filename |-> path]
    IN [type |-> "mixed",
        Subject |-> subj,
        To |-> recipient,
        parts |-> IF path # "" THEN <<msg_alt, pdf_attachment>> ELSE <<msg_alt>>]

\* --------------------------------------------------------------- initial

\* The session state of a new session, st.session_state as lines 66-76 make
\* it, with the script at rest.
NewSession ==
    /\ cancel_bulk = FALSE
    /\ bulk_running = FALSE
    /\ sent_emails = <<>>
    /\ failed_emails = <<>>
    /\ show_bulk_confirm = FALSE
    /\ bulk_df = <<>>
    /\ pc = "idle"
    /\ pos = 1
    /\ total = 0
    /\ sent_count = 0
    /\ pdf_path = ""
    /\ upload_error = "none"
    /\ level = 0
    /\ clock = 0
    /\ status_text = "none"
    /\ reentered = FALSE
    /\ log = <<>>

\* Campaigns of the default kind: the subject is plain text, the body refers
\* to a variable (or is malformed) and the table has a column for it.
Init ==
    /\ csv_file \in CsvFiles
    /\ columns = VarNames
    /\ subject = PlainSubject
    /\ html_body \in {PersonalBody, MalformedBody}
    /\ rate_limit \in 1..MaxRate
    /\ NewSession

\* Campaigns of every kind of subject, body and columns, on short tables.
TemplateInit ==
    /\ csv_file \in {df \in CsvFiles : Len(df) <= MaxTemplateRows}
    /\ columns \in ColumnSets
    /\ subject \in Subjects
    /\ html_body \in HtmlBodies
    /\ rate_limit \in 1..MaxRate
    /\ NewSession

\* ------------------------------------------------- the page (script runs)

\* run_bulk_with_progress is called on df: a new limiter, total = len(df),
\* sent_count = 0, and new empty placeholders on the page.
StartRun(df) ==
    /\ pc' = "setup"
    /\ pos' = 1
    /\ total' = Len(df)
    /\ sent_count' = 0
    /\ pdf_path' = ""
    /\ level' = 0
    /\ clock' = 0
    /\ status_text' = "none"
    /\ log' = <<>>

\* The bulk sending block at the end of every script execution: with
\* bulk_running set, run_bulk_with_progress is called on bulk_df; the
\* accumulators are left as they are. The model follows one such entry after
\* each confirmation.
EnterBulkBlock(running, df) ==
    IF running
    THEN /\ ~reentered
         /\ reentered' = TRUE
         /\ StartRun(df)
    ELSE /\ status_text' = "none"
         /\ UNCHANGED <<reentered, pc, locals, log>>

\* missing_vars = [var for var in template_vars if var not in df.columns]
missing_vars == {v \in extract_template_variables(html_body) : v \notin columns}

\* "Bulk Email" with a file uploaded: the table is refused when a variable of
\* the body has no column, and de-duplicated and put up for confirmation
\* otherwise.
Upload ==
    /\ pc = "idle"
    /\ IF missing_vars # {}
       THEN /\ upload_error' = "CSV missing required columns"
            /\ UNCHANGED <<bulk_df, show_bulk_confirm>>
       ELSE /\ upload_error' = "none"
            /\ bulk_df' = DropDuplicates(csv_file)
            /\ show_bulk_confirm' = TRUE
    /\ EnterBulkBlock(bulk_running, bulk_df')
    /\ UNCHANGED <<inputs, cancel_bulk, bulk_running, sent_emails,
                   failed_emails>>

\* "Confirm Send": the accumulators and the flag are reset, and st.rerun()
\* executes the script again, which enters the bulk block.
ConfirmSend ==
    /\ pc = "idle"
    /\ show_bulk_confirm
    /\ show_bulk_confirm' = FALSE
    /\ bulk_running' = TRUE
    /\ cancel_bulk' = FALSE
    /\ sent_emails' = <<>>
    /\ failed_emails' = <<>>
    /\ reentered' = FALSE
    /\ upload_error' = "none"
    /\ StartRun(bulk_df)
    /\ UNCHANGED <<inputs, bulk_df>>

\* "Cancel" of the confirmation box.
ConfirmCancel ==
    /\ pc = "idle"
    /\ show_bulk_confirm
    /\ show_bulk_confirm' = FALSE
    /\ upload_error' = "none"
    /\ EnterBulkBlock(bulk_running, bulk_df)
    /\ UNCHANGED <<inputs, cancel_bulk, bulk_running, sent_emails,
                   failed_emails, bulk_df>>

\* "Cancel Sending" asserted by the controlling context while the loop
\* executes: session state is shared with the loop, which only reads the flag.
CancelSending ==
    /\ bulk_running
    /\ pc # "idle"
    /\ ~cancel_bulk
    /\ cancel_bulk' = TRUE
    /\ log' = Append(log, Event("cancel", 0))
    /\ UNCHANGED <<inputs, upload_error, bulk_running, sent_emails, failed_emails,
                   show_bulk_confirm, bulk_df, pc, locals, status_text, reentered>>

\* "Cancel Sending" clicked on a page left with bulk_running set: the script
\* execution sets the flag and goes on into the bulk block.
CancelSendingRerun ==
    /\ pc = "idle"
    /\ bulk_running
    /\ cancel_bulk' = TRUE
    /\ upload_error' = "none"
    /\ EnterBulkBlock(bulk_running, bulk_df)
    /\ UNCHANGED <<inputs, bulk_running, sent_emails, failed_emails,
                   show_bulk_confirm, bulk_df>>

\* Any other interaction with a page left with bulk_running set.
Rerun ==
    /\ pc = "idle"
    /\ bulk_running
    /\ upload_error' = "none"
    /\ EnterBulkBlock(bulk_running, bulk_df)
    /\ UNCHANGED <<inputs, session>>

\* ------------------------------------------------ run_bulk_with_progress

\* async with session.client("ses"): the session is established ...
SetupOk ==
    /\ pc = "setup"
    /\ pc' = "check"
    /\ log' = Append(log, Event("setup", 0))
    /\ UNCHANGED <<inputs, upload_error, session, locals, status_text, reentered>>

\* Mutant: the setup error is recorded as the failure of the first recipient.
SetupFail_Recorded ==
    /\ pc = "setup"
    /\ pc' = "idle"
    /\ failed_emails' = Append(failed_emails,
                               [recipient |-> Email(1), error |-> "SetupError"])
    /\ UNCHANGED <<inputs, upload_error, cancel_bulk, bulk_running, sent_emails,
                   show_bulk_confirm, bulk_df, locals, status_text, reentered,
                   log>>

\* ... or it is not, and the exception leaves run_bulk_with_progress.
SetupFail ==
    /\ pc = "setup"
    /\ pc' = "idle"
    /\ UNCHANGED <<inputs, upload_error, session, locals, status_text, reentered, log>>

\* Mutant: the loop never looks at the flag.
CancelRequested_Never == FALSE

\* if st.session_state.cancel_bulk
CancelRequested == cancel_bulk

\* Mutant: the flag is reported but the loop does not break.
CheckCancel_NoBreak ==
    /\ pc = "check"
    /\ IF pos > Len(bulk_df)
       THEN /\ pc' = "final"
            /\ UNCHANGED <<status_text, log>>
       ELSE /\ pc' = "resolve"
            /\ log' = Append(log, Event("check", 0))
            /\ status_text' = IF CancelRequested THEN "cancelled" ELSE status_text
    /\ UNCHANGED <<inputs, upload_error, session, locals, reentered>>

\* for idx, row in df.iterrows(): the loop ends after the last row, breaks
\* when the flag is set, and goes on to the row otherwise.
CheckCancel ==
    /\ pc = "check"
    /\ IF pos > Len(bulk_df)
       THEN /\ pc' = "final"
            /\ UNCHANGED <<status_text, log>>
       ELSE IF CancelRequested
       THEN /\ pc' = "final"
            /\ status_text' = "cancelled"
            /\ UNCHANGED log
       ELSE /\ pc' = "resolve"
            /\ log' = Append(log, Event("check", 0))
            /\ UNCHANGED status_text
    /\ UNCHANGED <<inputs, upload_error, session, locals, reentered>>

\* os.path.join(pdf_folder, pdf_filename) raises TypeError on the NaN of an
\* empty pdf cell (NaN is truthy).
JoinRaises(pdf_filename) == pdf_filename = "nan"

\* The row's pdf_path: the joined path when a file is named and
\* os.path.exists finds it in the pdfs folder, None otherwise.
PdfPath(pdf_filename, exists) ==
    IF pdf_filename # "" /\ exists THEN pdf_filename ELSE ""

\* Mutant: the row goes to the rendering without passing the limiter.
ResolveRow_SkipLimiter ==
    /\ pc = "resolve"
    /\ LET pdf_filename == bulk_df[pos].pdf IN
       IF JoinRaises(pdf_filename)
       THEN /\ pc' = "idle"
            /\ UNCHANGED <<pdf_path, log>>
       ELSE /\ \E exists \in BOOLEAN : pdf_path' = PdfPath(pdf_filename, exists)
            /\ pc' = "render"
            /\ log' = Append(log, Event("resolve", 0))
    /\ UNCHANGED <<inputs, upload_error, session, pos, total, sent_count, level, clock,
                   status_text, reentered>>

\* The row's attachment path and template values; no try encloses them, so
\* an exception here leaves run_bulk_with_progress.
ResolveRow ==
    /\ pc = "resolve"
    /\ LET pdf_filename == bulk_df[pos].pdf IN
       IF JoinRaises(pdf_filename)
       THEN /\ pc' = "idle"
            /\ UNCHANGED <<pdf_path, log>>
       ELSE /\ \E exists \in BOOLEAN : pdf_path' = PdfPath(pdf_filename, exists)
            /\ pc' = "acquire"
            /\ log' = Append(log, Event("resolve", 0))
    /\ UNCHANGED <<inputs, upload_error, session, pos, total, sent_count, level, clock,
                   status_text, reentered>>

\* Mutant: the bucket takes one permit more than its capacity.
HasCapacity_OneMore == level <= rate_limit

\* The limiter: a bucket of capacity rate_limit ...
HasCapacity == level + 1 <= rate_limit

\* ... that drains one permit per tick.
Leak(l) == Max(l - 1, 0)

\* async with limiter, the first statement of send_single_email: one permit,
\* once the bucket has room for it. Leaving the block gives nothing back.
Acquire ==
    /\ pc = "acquire"
    /\ HasCapacity
    /\ level' = level + 1
    /\ pc' = "render"
    /\ log' = Append(log, Event("acquire", 0))
    /\ UNCHANGED <<inputs, upload_error, session, pos, total, sent_count, pdf_path, clock,
                   status_text, reentered>>

\* The bucket is full: acquire sleeps 1/rate_limit second, in which one
\* permit drains, and looks again. Nothing else takes time: the clock is the
\* event loop's, and the transport answers at once.
Tick ==
    /\ pc = "acquire"
    /\ ~HasCapacity
    /\ clock' = clock + 1
    /\ level' = Leak(level)
    /\ UNCHANGED <<inputs, upload_error, session, pc, pos, total, sent_count, pdf_path,
                   status_text, reentered, log>>

\* error_msg = f"{recipient}: {str(e)}"
FailedEntry(recipient, error) == [recipient |-> recipient, error |-> error]

\* Template(html_body) raises TemplateSyntaxError on a malformed template.
RenderRaises == \E k \in 1..Len(html_body) : html_body[k] = Unclosed

\* Mutant: a row whose declared file was not found fails.
RenderAndSend_FailMissing ==
    /\ pc = "render"
    /\ IF RenderRaises \/ (bulk_df[pos].pdf # "" /\ pdf_path = "")
       THEN /\ failed_emails' = Append(failed_emails,
                    FailedEntry(bulk_df[pos].email, "FileNotFoundError"))
            /\ pc' = "progress"
            /\ log' = Append(log, Event("failed", 0))
       ELSE /\ pc' = "send"
            /\ log' = log \o <<Event("render", 0), Event("send", 0)>>
            /\ UNCHANGED failed_emails
    /\ UNCHANGED <<inputs, upload_error, cancel_bulk, bulk_running,
                   sent_emails, show_bulk_confirm, bulk_df, locals,
                   status_text, reentered>>

\* Inside the limiter block: Template(html_body).render and the MIME message,
\* then send_raw_email is called. An exception of the rendering is raised
\* inside the try of send_single_email and caught by the loop: the row is
\* recorded as failed, and nothing is sent.
RenderAndSend ==
    /\ pc = "render"
    /\ IF RenderRaises
       THEN /\ failed_emails' = Append(failed_emails,
                    FailedEntry(bulk_df[pos].email, "TemplateSyntaxError"))
            /\ pc' = "progress"
            /\ log' = Append(log, Event("failed", 0))
       ELSE /\ pc' = "send"
            /\ log' = log \o <<Event("render", 0), Event("send", 0)>>
            /\ UNCHANGED failed_emails
    /\ UNCHANGED <<inputs, upload_error, cancel_bulk, bulk_running, sent_emails,
                   show_bulk_confirm, bulk_df, locals, status_text, reentered>>

\* send_raw_email returns: the recipient is appended to sent_emails.
SendOk ==
    /\ pc = "send"
    /\ sent_emails' = Append(sent_emails, bulk_df[pos].email)
    /\ sent_count' = sent_count + 1
    /\ pc' = "progress"
    /\ log' = Append(log, Event("sent", 0))
    /\ UNCHANGED <<inputs, upload_error, cancel_bulk, bulk_running, failed_emails,
                   show_bulk_confirm, bulk_df, pos, total, pdf_path, level,
                   clock, status_text, reentered>>

\* Mutant: a failed send gives its permit back.
SendFail_Refund ==
    /\ pc = "send"
    /\ \E e \in TransportErrors :
          failed_emails' = Append(failed_emails,
                                  FailedEntry(bulk_df[pos].email, e))
    /\ level' = Max(level - 1, 0)
    /\ pc' = "progress"
    /\ log' = Append(log, Event("failed", 0))
    /\ UNCHANGED <<inputs, upload_error, cancel_bulk, bulk_running, sent_emails,
                   show_bulk_confirm, bulk_df, pos, total, sent_count,
                   pdf_path, clock, status_text, reentered>>

\* send_raw_email raises: "recipient: error" is appended to failed_emails.
SendFail ==
    /\ pc = "send"
    /\ \E e \in TransportErrors :
          failed_emails' = Append(failed_emails,
                                  FailedEntry(bulk_df[pos].email, e))
    /\ pc' = "progress"
    /\ log' = Append(log, Event("failed", 0))
    /\ UNCHANGED <<inputs, upload_error, cancel_bulk, bulk_running, sent_emails,
                   show_bulk_confirm, bulk_df, locals, status_text, reentered>>

\* progress_bar.progress(progress) raises StreamlitAPIException on a value
\* above 1.0.
ProgressRaises(processed, tot) == processed > tot

\* progress = (idx + 1) / total, idx the index label of the row; no try
\* encloses the progress update.
Progress ==
    /\ pc = "progress"
    /\ LET processed == bulk_df[pos].idx + 1 IN
       IF ProgressRaises(processed, total)
       THEN /\ pc' = "idle"
            /\ UNCHANGED <<pos, status_text, log>>
       ELSE /\ status_text' = "progress"
            /\ log' = Append(log, Event("progress", processed))
            /\ pos' = pos + 1
            /\ pc' = "check"
    /\ UNCHANGED <<inputs, upload_error, session, total, sent_count, pdf_path, level,
                   clock, reentered>>

\* Mutant: the run ends without clearing the running flag.
Finish_KeepRunning ==
    /\ pc = "final"
    /\ IF ~cancel_bulk
       THEN /\ status_text' = "completed"
            /\ log' = Append(log, Event("completed", 0))
       ELSE /\ log' = Append(log, Event("cancelled", 0))
            /\ UNCHANGED status_text
    /\ pc' = "idle"
    /\ UNCHANGED <<inputs, upload_error, session, locals, reentered>>

\* Final status: the summary is shown and logged as completed unless the flag
\* is set, and the running flag is cleared.
Finish ==
    /\ pc = "final"
    /\ IF ~cancel_bulk
       THEN /\ status_text' = "completed"
            /\ log' = Append(log, Event("completed", 0))
       ELSE /\ log' = Append(log, Event("cancelled", 0))
            /\ UNCHANGED status_text
    /\ bulk_running' = FALSE
    /\ pc' = "idle"
    /\ UNCHANGED <<inputs, upload_error, cancel_bulk, sent_emails, failed_emails,
                   show_bulk_confirm, bulk_df, locals, reentered>>

Next ==
    \/ Upload
    \/ ConfirmSend
    \/ ConfirmCancel
    \/ CancelSending
    \/ CancelSendingRerun
    \/ Rerun
    \/ SetupOk
    \/ SetupFail
    \/ CheckCancel
    \/ ResolveRow
    \/ Acquire
    \/ Tick
    \/ RenderAndSend
    \/ SendOk
    \/ SendFail
    \/ Progress
    \/ Finish

Spec == Init /\ [][Next]_vars

\* One step of run_bulk_with_progress, whichever the loop is at.
RunStep ==
    \/ SetupOk
    \/ SetupFail
    \/ CheckCancel
    \/ ResolveRow
    \/ Acquire
    \/ Tick
    \/ RenderAndSend
    \/ SendOk
    \/ SendFail
    \/ Progress
    \/ Finish

\* asyncio.run drives the coroutine until it returns or raises: every await
\* of the loop (the session, the limiter, the transport) returns in the end.
LiveSpec == Spec /\ WF_vars(RunStep)

TemplateSpec == TemplateInit /\ [][Next]_vars

\* The message handed to send_raw_email for the current row.
RawMessage ==
    BuildMessage(bulk_df[pos].email, subject,
                 Render(html_body, TemplateValues(bulk_df[pos])), pdf_path)

\* ------------------------------------------------------- reading the log

Steps(names) == {i \in 1..Len(log) : log[i].step \in names}

Outcomes == {"sent", "failed"}

\* The rows of bulk_df the current run has recorded an outcome for.
Processed == {log[i].pos : i \in Steps(Outcomes)}

\* The rows of bulk_df the current run has not processed.
Unprocessed == (1..Len(bulk_df)) \ Processed

\* A run has started and, if it is over, nothing has replaced it.
RunStarted == pc # "idle" \/ log # <<>>

\* The run is over: the script is out of run_bulk_with_progress.
RunOver == pc = "idle" /\ log # <<>>

LastStep == IF log = <<>> THEN "none" ELSE log[Len(log)].step

FailedRecipients == {failed_emails[i].recipient : i \in 1..Len(failed_emails)}

SentRecipients == {sent_emails[i] : i \in 1..Len(sent_emails)}

\* ------------------------------------------------------------------ C1

\* C1: in every state of a bulk run, from its start until after its end, the
\* entries of the sent list plus the entries of the failed list plus the
\* rows not yet processed number the rows of the de-duplicated table, and
\* after a completed run the two lists together number the table.
C1_Conservation ==
    /\ RunStarted =>
          Len(sent_emails) + Len(failed_emails) + Cardinality(Unprocessed)
             = Len(bulk_df)
    /\ LastStep = "completed" =>
          Len(sent_emails) + Len(failed_emails) = Len(bulk_df)

\* ------------------------------------------------------------------ C2

\* C2 as stated: once the cancellation flag has been set during a run, no
\* send_raw_email call is issued in that run, wherever the loop was.
C2_NoSendAfterCancel ==
    \A i \in Steps({"cancel"}) : \A j \in Steps({"send"}) : j < i

\* C2 amended: once the flag has been set, no row passes its cancellation
\* check any more; the only send issued after the flag is that of the row
\* which had passed its check before the flag was set, so at most one; and a
\* run entered with the flag already set sends nothing.
C2_StickyAtCheck ==
    /\ \A i \in Steps({"cancel"}) :
          /\ \A j \in Steps({"check"}) : j < i
          /\ \A j \in Steps({"send"}) :
                j > i => /\ log[j].pos = log[i].pos
                         /\ \E k \in Steps({"check"}) :
                               k < i /\ log[k].pos = log[j].pos
          /\ Cardinality({j \in Steps({"send"}) : j > i}) <= 1
    /\ (cancel_bulk /\ Steps({"cancel"}) = {}) => Steps({"check", "send"}) = {}

\* The flag was set in the middle of a row, the row's send was still issued,
\* and the run then ended as cancelled.
C2_Witness ==
    /\ \E i \in Steps({"cancel"}) : \E j \in Steps({"send"}) : j > i
    /\ LastStep = "cancelled"

\* ------------------------------------------------------------------ C3

IsSent(e) == e.step = "sent"
IsFailed(e) == e.step = "failed"

\* s ends with the entries of t.
EndsWith(s, t) ==
    /\ Len(s) >= Len(t)
    /\ \A k \in 1..Len(t) : s[Len(s) - Len(t) + k] = t[k]

\* The recipients the current run recorded as sent and as failed, in order.
RunSent == [k \in 1..Len(SelectSeq(log, IsSent)) |->
               bulk_df[SelectSeq(log, IsSent)[k].pos].email]
RunFailed == [k \in 1..Len(SelectSeq(log, IsFailed)) |->
                 bulk_df[SelectSeq(log, IsFailed)[k].pos].email]

\* C3: when the flag is set after a recipient has been processed and before
\* the next row's check, nothing is done for any later row; every outcome the
\* run recorded stays at the end of the sent and failed lists, in order; and a
\* send that was issued has its outcome recorded whenever the loop is past it,
\* flag or no flag, so the run does not end as completed with rows left.
C3_CancelBetweenRows ==
    /\ \A i \in Steps({"cancel"}) :
          (i > 1 /\ log[i - 1].step \in {"sent", "failed", "progress"}) =>
             \A j \in Steps({"check", "resolve", "acquire", "render", "send"}) :
                j < i
    /\ EndsWith(sent_emails, RunSent)
    /\ EndsWith([k \in 1..Len(failed_emails) |-> failed_emails[k].recipient],
                RunFailed)
    /\ pc # "send" =>
          \A j \in Steps({"send"}) :
             \E k \in Steps(Outcomes) : k > j /\ log[k].pos = log[j].pos
    /\ (Steps({"cancel"}) # {} /\ Unprocessed # {}) => LastStep # "completed"

\* The flag was set right after a row's progress event, rows were left, the
\* run ended as cancelled and the processed rows are in the lists.
C3_Witness ==
    /\ \E i \in Steps({"cancel"}) : i > 1 /\ log[i - 1].step = "progress"
    /\ LastStep = "cancelled"
    /\ Unprocessed # {}
    /\ Processed # {}
    /\ Len(sent_emails) + Len(failed_emails) = Cardinality(Processed)

\* ------------------------------------------------------------------ C4

EmailAt(p) == bulk_df[p].email

\* The log entries that record a failed transport send: the failure of a
\* send_raw_email call that was issued.
TransportFailures ==
    {i \in Steps({"failed"}) :
        \E j \in Steps({"send"}) : j < i /\ log[j].pos = log[i].pos}

\* C4: when the transport send fails for a recipient, exactly one Failed
\* entry names that recipient, with the error; the run does not abort: unless
\* cancellation is requested every later recipient is attempted and the run
\* ends Completed, its failed list holding exactly the recipients whose send
\* failed.
C4_Isolation ==
    \A i \in TransportFailures :
        /\ Cardinality({k \in 1..Len(failed_emails) :
                           failed_emails[k].recipient = EmailAt(log[i].pos)}) = 1
        /\ \A k \in 1..Len(failed_emails) :
              failed_emails[k].recipient = EmailAt(log[i].pos)
                 => failed_emails[k].error \in TransportErrors
        /\ (RunOver /\ ~cancel_bulk) =>
              /\ LastStep = "completed"
              /\ \A q \in (log[i].pos + 1)..Len(bulk_df) : q \in Processed
        /\ LastStep = "completed" =>
              FailedRecipients = {EmailAt(log[k].pos) : k \in TransportFailures}

\* ------------------------------------------------------------------ C5

\* C5: once the transport session is established, nothing that happens for a
\* row ends the run: unless cancellation is requested, a run that is over has
\* processed every row of the de-duplicated table and ended Completed.
C5_OnlySetupStops ==
    (RunOver /\ Steps({"setup"}) # {} /\ ~cancel_bulk) =>
        /\ LastStep = "completed"
        /\ Unprocessed = {}

\* ------------------------------------------------------------------ C6

\* s lists rows of bulk_df by their address, in table order.
InTableOrder(s) ==
    /\ \A k \in 1..Len(s) : \E p \in 1..Len(bulk_df) : EmailAt(p) = s[k]
    /\ \A k, l \in 1..Len(s) :
          k < l => \A p, q \in 1..Len(bulk_df) :
                      (EmailAt(p) = s[k] /\ EmailAt(q) = s[l]) => p < q

\* C6: the send attempt for a row never starts before the outcome of every
\* earlier row of the table has been recorded, and the sent list and the
\* failed list are each subsequences of the table order.
C6_TableOrder ==
    /\ \A j \in Steps({"send"}) :
          \A q \in 1..(log[j].pos - 1) :
             \E k \in Steps(Outcomes) : k < j /\ log[k].pos = q
    /\ InTableOrder(sent_emails)
    /\ InTableOrder([k \in 1..Len(failed_emails) |-> failed_emails[k].recipient])

\* ------------------------------------------------------------------ C7

Occurrences(s, e) == Cardinality({k \in 1..Len(s) : s[k] = e})

\* C7: the campaign dispatched is the first occurrence of each distinct email
\* value of the input table, in input order; within one run an address gets
\* at most one send attempt and appears at most once across the sent and the
\* failed list.
C7_FirstOccurrenceOnly ==
    /\ bulk_df # <<>> =>
          /\ {EmailAt(p) : p \in 1..Len(bulk_df)}
                = {csv_file[k].email : k \in 1..Len(csv_file)}
          /\ \A p \in 1..Len(bulk_df) :
                /\ csv_file[bulk_df[p].idx + 1].email = EmailAt(p)
                /\ \A k \in 1..bulk_df[p].idx : csv_file[k].email # EmailAt(p)
          /\ \A p, q \in 1..Len(bulk_df) : p < q => bulk_df[p].idx < bulk_df[q].idx
    /\ \A i, j \in Steps({"send"}) :
          i # j => EmailAt(log[i].pos) # EmailAt(log[j].pos)
    /\ \A e \in Emails :
          Occurrences(sent_emails, e)
            + Occurrences([k \in 1..Len(failed_emails) |->
                              failed_emails[k].recipient], e) <= 1

\* ------------------------------------------------------------------ C8

Number(step) == Cardinality(Steps({step}))

\* The log entries of rows that failed before any send_raw_email call.
RenderFailures == Steps({"failed"}) \ TransportFailures

\* Every send_raw_email call is issued under a permit acquired for its row.
SendsHoldPermit ==
    \A j \in Steps({"send"}) :
       \E i \in Steps({"acquire"}) : i < j /\ log[i].pos = log[j].pos

\* The bucket holds every permit acquired but those drained by time: none
\* was given back.
NoRefund == level = Number("acquire") - clock

RowSteps == {"check", "resolve", "acquire", "render", "send", "sent",
             "failed", "progress"}

\* The steps the current run took for row p, in order.
StepsOf(p) ==
    LET ofRow(e) == e.pos = p /\ e.step \in RowSteps
        events == SelectSeq(log, ofRow)
    IN [k \in 1..Len(events) |-> events[k].step]

IsPrefix(s, t) == Len(s) <= Len(t) /\ \A k \in 1..Len(s) : s[k] = t[k]

\* The rows whose progress event has been emitted.
Reported == {log[i].pos : i \in Steps({"progress"})}

RowOrders ==
    {<<"check", "resolve", "acquire", "render", "send", o, "progress">> :
        o \in Outcomes}
    \cup {<<"check", "resolve", "acquire", "failed", "progress">>}

Grants == SelectSeq(log, LAMBDA e : e.step = "acquire")

CeilDiv(a, b) == (a + b - 1) \div b

RunBegins == pc = "idle" /\ pc' = "setup"

\* C11: whenever a run starts, after whatever end of an earlier run, the sent
\* list and the failed list are empty and the cancellation flag is clear.
C11_FreshStart ==
    [][RunBegins =>
          /\ sent_emails' = <<>>
          /\ failed_emails' = <<>>
          /\ ~cancel_bulk']_vars

\* ----------------------------------------------------------------- C12

\* The run reached a terminal state and its final summary was emitted.
Terminal == pc = "idle" /\ LastStep \in {"completed", "cancelled"}

\* C12: every run whose session was set up and that has entered the loop
\* eventually ends Completed or Cancelled, with its final summary emitted,
\* given that every await of the loop returns.
C12_Terminates == (pc = "check") ~> Terminal

\* ----------------------------------------------------------------- C13

\* C13: from a run that ended Completed or Cancelled, every step but a new
\* confirmation leaves the sent and failed lists as they are, issues no send
\* attempt and starts no run.
C13_TerminalFinal ==
    [][Terminal =>
          \/ ConfirmSend
          \/ /\ UNCHANGED <<sent_emails, failed_emails, log>>
             /\ pc' = "idle"
             /\ ~bulk_running']_vars

\* A run ended with a recipient in each list, and a table was uploaded after
\* it: the confirmation box is open, the run is still the last one and both
\* lists are there.
C13_Witness ==
    /\ Terminal
    /\ show_bulk_confirm
    /\ Len(sent_emails) >= 1
    /\ Len(failed_emails) >= 1
    /\ Len(sent_emails) + Len(failed_emails) = Cardinality(Processed)

\* ----------------------------------------------------------------- C14

\* The exception of the session setup leaves run_bulk_with_progress.
SetupRaises == pc = "setup" /\ pc' = "idle"

\* The last run was started on a confirmation and ended in its setup.
SetupFailed == pc = "idle" /\ bulk_running /\ Steps({"setup"}) = {}

\* C14: when the session setup fails, the run is left at once: it has
\* processed no row, acquired no permit, issued no send and appended nothing
\* to the sent or failed lists, which are empty when the run was the one the
\* confirmation started.
C14_SetupFatal ==
    [][SetupRaises =>
          /\ Steps(RowSteps) = {}
          /\ level = 0
          /\ UNCHANGED <<sent_emails, failed_emails, level>>
          /\ Steps(RowSteps)' = {}
          /\ ~reentered => sent_emails' = <<>> /\ failed_emails' = <<>>]_vars

\* A confirmed campaign of two recipients or more ended in its setup: nothing
\* was logged for any row and both lists are empty.
C14_Witness ==
    /\ SetupFailed
    /\ ~reentered
    /\ Len(bulk_df) >= 2
    /\ Steps(RowSteps) = {}
    /\ sent_emails = <<>>
    /\ failed_emails = <<>>

\* ----------------------------------------------------------------- C15

\* The current row names an attachment file that was not found in the folder.
FileMissing ==
    /\ pc \in {"acquire", "render", "send", "progress"}
    /\ bulk_df[pos].pdf \notin {"", "nan"}
    /\ pdf_path = ""

PartTypes(msg) == {msg.parts[k].type : k \in 1..Len(msg.parts)}

\* The outcomes the run recorded for row p.
OutcomesOf(p) == {i \in Steps(Outcomes) : log[i].pos = p}

\* C15: a row that names a file which is not in the attachment folder is
\* still attempted: the message handed to the transport has the text and HTML
\* alternative and no attachment part, and the row's outcome is Sent unless
\* the transport (or the rendering of the body) failed.
C15_AttachmentFallback ==
    FileMissing =>
       /\ \E i \in Steps({"resolve"}) : log[i].pos = pos
       /\ pc = "send" =>
             /\ "application/pdf" \notin PartTypes(RawMessage)
             /\ "alternative" \in PartTypes(RawMessage)
             /\ RawMessage.To = bulk_df[pos].email
       /\ pc = "progress" =>
             /\ Cardinality(OutcomesOf(pos)) = 1
             /\ \A i \in OutcomesOf(pos) :
                   \/ log[i].step = "sent"
                   \/ i \in TransportFailures
                   \/ RenderRaises

\* A row named a file that was not found, and was recorded as sent.
C15_Witness ==
    /\ FileMissing
    /\ pc = "progress"
    /\ \E i \in OutcomesOf(pos) : log[i].step = "sent"
    /\ bulk_df[pos].email \in SentRecipients

\* ----------------------------------------------------------------- C16

\* What a reference to v stands for in the message of a row.
Resolved(row, v) == IF v \in columns THEN Cell(row, v) ELSE Placeholder(v)

\* C16: no table is refused because a variable of the template has no
\* column, and in every message handed to the transport each reference of the
\* body stands as the row's value when the column is there and as the
\* placeholder "[name]" otherwise.
C16_MissingVariableSoft ==
    /\ upload_error = "none"
    /\ pc = "send" =>
          LET html == RawMessage.parts[1].parts[2].body IN
          \A k \in 1..Len(html_body) :
             html_body[k][1] = "ref" =>
                html[k] = Lit(Resolved(bulk_df[pos], html_body[k][2]))

\* ----------------------------------------------------------------- C17

\* The outcomes recorded before entry i of the log.
AttemptedBefore(i) == Cardinality({j \in Steps(Outcomes) : j < i})

\* C17: each progress event reports the number of recipients attempted so
\* far, a count between 1 and the total, and the fraction the progress bar is
\* given for a processed row never exceeds 1.
C17_ProcessedCount ==
    /\ \A i \in Steps({"progress"}) :
          /\ log[i].n = AttemptedBefore(i)
          /\ log[i].n \in 1..total
    /\ pc = "progress" => bulk_df[pos].idx + 1 <= total

\* ----------------------------------------------------------------- C18

\* The progress events of the run, in order.
ProgressEvents == SelectSeq(log, LAMBDA e : e.step = "progress")

\* The progress events emitted for row p.
ProgressOf(p) == {i \in Steps({"progress"}) : log[i].pos = p}

\* C18: the counts of successive progress events never decrease, and every
\* processed row has exactly one progress event, emitted after its outcome
\* was recorded (the row the loop is at may still be waiting for its event).
C18_OneEventPerRow ==
    /\ \A k \in 1..(Len(ProgressEvents) - 1) :
          ProgressEvents[k].n <= ProgressEvents[k + 1].n
    /\ \A p \in Processed :
          /\ Cardinality(ProgressOf(p)) <= 1
          /\ \A i \in ProgressOf(p) : \E j \in OutcomesOf(p) : j < i
          /\ ProgressOf(p) = {} => pc = "progress" /\ pos = p
    /\ \A p \in 1..Len(bulk_df) : ProgressOf(p) # {} => p \in Processed

\* ----------------------------------------------------------------- C19

HasReference(text) == \E k \in 1..Len(text) : text[k][1] = "ref"

\* C19: the subject of every message handed to the transport has been
\* rendered: the variables of the subject are among those discovered for the
\* row, and the subject sent is the subject template with each reference
\* replaced by the row's value or the placeholder, so it holds no reference.
C19_SubjectRendered ==
    pc = "send" =>
       /\ extract_template_variables(subject)
             \subseteq DOMAIN TemplateValues(bulk_df[pos])
       /\ RawMessage.Subject
             = [k \in 1..Len(subject) |->
                   IF subject[k][1] = "ref"
                   THEN Lit(Resolved(bulk_df[pos], subject[k][2]))
                   ELSE subject[k]]
       /\ ~HasReference(RawMessage.Subject)

\* ----------------------------------------------------------------- C20

\* The alternative container of a message: the message itself or its first
\* part.
Alternative(msg) == IF msg.type = "alternative" THEN msg ELSE msg.parts[1]

\* The alternative container holds the plain-text part first, the HTML last.
TextThenHtml(msg) ==
    LET alt == Alternative(msg) IN
    /\ alt.type = "alternative"
    /\ Len(alt.parts) = 2
    /\ alt.parts[1].type = "text/plain"
    /\ alt.parts[2].type = "text/html"

\* C20 as stated: the top level of a message is a mixed container if and only
\* if an attachment part is present, and is the alternative container itself
\* otherwise; the alternative holds the text first and the HTML last.
C20_MixedIffAttachment ==
    pc = "send" =>
       /\ RawMessage.type = "mixed"
             <=> "application/pdf" \in PartTypes(RawMessage)
       /\ "application/pdf" \notin PartTypes(RawMessage)
             => RawMessage.type = "alternative"
       /\ TextThenHtml(RawMessage)

\* C20 amended: the top level of a message is always a mixed container; it
\* holds the alternative container first, and after it the attachment part if
\* and only if the row's file was found; the alternative holds the text first
\* and the HTML last.
C20_AlwaysMixed ==
    pc = "send" =>
       /\ RawMessage.type = "mixed"
       /\ RawMessage.parts[1].type = "alternative"
       /\ TextThenHtml(RawMessage)
       /\ IF pdf_path # ""
          THEN /\ Len(RawMessage.parts) = 2
               /\ RawMessage.parts[2].type = "application/pdf"
          ELSE Len(RawMessage.parts) = 1

\* A message without attachment is handed to the transport after an earlier
\* row was sent: its top level is a mixed container of one part.
C20_Witness ==
    /\ pc = "send"
    /\ pdf_path = ""
    /\ RawMessage.type = "mixed"
    /\ Len(RawMessage.parts) = 1
    /\ Steps({"sent"}) # {}

\* ----------------------------------------------------------------- C21

\* C21: the running flag is cleared on every exit from a run: whenever the
\* script is out of run_bulk_with_progress, bulk_running is False, so that no
\* later script execution enters the bulk block without a new confirmation.
C21_FlagCleared == pc = "idle" => ~bulk_running

\* ----------------------------------------------------------------- C22

\* C22: a run is reported as cancelled only if a recipient was left
\* unprocessed, and a run in which every recipient was attempted ends as
\* completed, with the completion summary, even when the flag was set during
\* the last recipient's send.
C22_CancelledOnlyIfRowsLeft ==
    /\ LastStep = "cancelled" => Unprocessed # {}
    /\ (Terminal /\ Unprocessed = {}) =>
          LastStep = "completed" /\ status_text \in {"completed", "none"}

====
